---- MODULE Spec2Model ----
(***************************************************************************)
(* Answer-window search of the question-answering notebook                 *)
(* (notebooks/213-question-answering): find_best_answer_window and the     *)
(* code that calls it; and the top-three post-processing of the            *)
(* classification notebook (notebooks/103-paddle-onnx-to-openvino).        *)
(*                                                                         *)
(* Scores are floating-point probabilities in the notebook.  Here a score  *)
(* is a natural number (a fixed-point value), so products and comparisons  *)
(* are exact.  A numpy array is a sequence; the 0-based index k of the     *)
(* code is element k+1 of the sequence.                                    *)
(***************************************************************************)
EXTENDS Integers, Sequences, FiniteSets, TLC

VARIABLES
    start_score,        \* argument of the last call of find_best_answer_window
    end_score,          \* argument of the last call of find_best_answer_window
    context_start_idx,  \* argument of the last call of find_best_answer_window
    context_end_idx,    \* argument of the last call of find_best_answer_window
    result,             \* outcome of that call: none yet, a return value, or a raised error
    pc,                 \* where run_question_answering stands
    sources,            \* argument of run_question_answering
    network,            \* the compiled model: what decides the output of an inference
    vocab,              \* the vocabulary table loaded at startup
    context,            \* local of run_question_answering
    asked,              \* every string input() has returned, in order
    question,           \* local of run_question_answering
    frame,              \* the locals of get_best_answer
    stdout,             \* the lines printed, in order
    infer_calls,        \* number of request.infer calls made
    window_calls,       \* number of find_best_answer_window calls made
    cell,               \* where the classification notebook stands
    model_output,       \* what the compiled classification model returns for the image
    np_argsort,         \* what np.argsort returns for the softmax of that output
    ie_result,          \* global of the classification notebook
    result_index,       \* global of the classification notebook
    softmax_result,     \* global of the classification notebook
    top_indices,        \* global of the classification notebook
    top_softmax,        \* global of the classification notebook
    class_name,         \* global of the classification notebook
    images              \* iterations of the timing loop that have run

window_vars == <<start_score, end_score, context_start_idx, context_end_idx, result>>
run_vars == <<pc, sources, network, vocab, context, asked, question, frame, stdout,
              infer_calls, window_calls>>
class_vars == <<cell, model_output, np_argsort, ie_result, result_index, class_name,
                softmax_result, top_indices, top_softmax, images>>
vars == <<window_vars, run_vars, class_vars>>

----------------------------------------------------------------------------
(* Bounds of the model *)

\* length N of the score vectors
MaxLen == 18
\* the largest context_start_idx drawn
MaxStart == 1
\* the largest score drawn
MaxScore == 2
\* the largest number of sources handed to run_question_answering
MaxSources == 2
\* the largest number of non-empty questions entered in one run
MaxQuestions == 2
\* the largest token position at which a network puts its start or end peak
MaxPeak == 3
\* the logit of a peak (every other logit is 0)
MaxLogit == 3
\* the largest length of a score vector among the arguments of any shape
MaxArgLen == 3
\* the largest number of entries of a drawn span index map
MaxSpans == 3
\* the largest character offset in a drawn span index map
MaxOffset == 2
\* the largest number of classes of a drawn classification output
MaxClasses == 4
\* the largest logit of a drawn classification output
MaxClassLogit == 2
\* the iterations of the timing loop that are run (num_images is 50 in the
\* notebook; every iteration computes the same values)
MaxImages == 2
\* fixed-point resolution: the score 1.0 is ScoreScale
ScoreScale == 100

(* Program constant: the diagonal of np.tril(score_mat, 16) *)
MaxAnswerSpan == 16

----------------------------------------------------------------------------
(* numpy and Python primitives, as find_best_answer_window uses them *)

Min(a, b) == IF a < b THEN a ELSE b

\* v[k] with the 0-based index k of the code
At(v, k) == v[k + 1]

\* the elements of a finite set of numbers in increasing order
SortedSeq(S) ==
    [k \in 1..Cardinality(S) |-> CHOOSE x \in S : Cardinality({y \in S : y < x}) = k - 1]

\* 2^x, standing for np.exp(x): positive, increasing, Exp(x + y) = Exp(x) * Exp(y)
RECURSIVE Exp(_)
Exp(x) == IF x <= 0 THEN 1 ELSE 2 * Exp(x - 1)

\* the sum of the elements of v
RECURSIVE Sum(_)
Sum(v) == IF Len(v) = 0 THEN 0 ELSE v[1] + Sum(Tail(v))

\* the concatenation of the sequences of a sequence
RECURSIVE Concat(_)
Concat(ss) == IF Len(ss) = 0 THEN << >> ELSE ss[1] \o Concat(Tail(ss))

\* Slice with the offset a forgotten: v[0:b-a]
SliceFromZero(v, a, b) ==
    LET hi == Min(b - a, Len(v))
    IN  IF 0 >= hi THEN << >> ELSE [k \in 1..hi |-> v[k]]

\* Slice with the end included: v[a:b+1]
SliceInclusive(v, a, b) ==
    LET hi == Min(b + 1, Len(v))
    IN  IF a >= hi THEN << >> ELSE [k \in 1..(hi - a) |-> v[a + k]]

\* v[a:b] for 0 <= a, 0 <= b: the elements a .. min(b, len(v)) - 1
Slice(v, a, b) ==
    LET hi == Min(b, Len(v))
    IN  IF a >= hi THEN << >> ELSE [k \in 1..(hi - a) |-> v[a + k]]

\* v.reshape((n, 1)) or v.reshape((1, n)): TRUE when numpy accepts the shape.
\* n >= 0 must equal the size; n = -1 is inferred from the size; n < -1 raises.
ReshapeOk(v, n) == (n = Len(v)) \/ (n = -1)

\* np.matmul of an (n,1) column a and a (1,n) row b: the n x n outer product,
\* indexed by 0-based <<i, j>>
Matmul(a, b) ==
    [p \in (0..(Len(a) - 1)) \X (0..(Len(b) - 1)) |-> a[p[1] + 1] * b[p[2] + 1]]

\* Triu left out: nothing is zeroed
TriuNone(m) == m

\* np.triu(m, 1) in place of np.triu(m): the main diagonal is zeroed too
TriuStrict(m) == [p \in DOMAIN m |-> IF p[2] <= p[1] THEN 0 ELSE m[p]]

\* np.triu(m): zero below the main diagonal (j < i)
Triu(m) == [p \in DOMAIN m |-> IF p[2] < p[1] THEN 0 ELSE m[p]]

\* np.tril(m, k - 1) in place of np.tril(m, k)
TrilNarrow(m, k) == [p \in DOMAIN m |-> IF p[2] - p[1] > k - 1 THEN 0 ELSE m[p]]

\* np.tril(m, k + 1) in place of np.tril(m, k)
TrilWide(m, k) == [p \in DOMAIN m |-> IF p[2] - p[1] > k + 1 THEN 0 ELSE m[p]]

\* np.tril(m, k): zero above the k-th diagonal (j - i > k)
Tril(m, k) == [p \in DOMAIN m |-> IF p[2] - p[1] > k THEN 0 ELSE m[p]]

\* a flattening in column-major order
FlattenColumnMajor(m, n) == [k \in 1..(n * n) |-> m[<<(k - 1) % n, (k - 1) \div n>>]]

\* m.flatten() of an n x n matrix: row-major order
Flatten(m, n) == [k \in 1..(n * n) |-> m[<<(k - 1) \div n, (k - 1) % n>>]]

\* the largest element of a non-empty f
MaxOf(f) ==
    LET vals == {f[k] : k \in DOMAIN f}
    IN  CHOOSE x \in vals : \A y \in vals : y <= x

\* an argmax that returns the last occurrence of the maximum
ArgmaxLast(f) ==
    LET mx == MaxOf(f)
    IN  (CHOOSE k \in 1..Len(f) : f[k] = mx /\ \A m \in (k + 1)..Len(f) : f[m] < mx) - 1

\* f.argmax() of a non-empty f: the 0-based index of the first occurrence of the
\* maximum
Argmax(f) ==
    LET mx == MaxOf(f)
    IN  (CHOOSE k \in 1..Len(f) : f[k] = mx /\ \A m \in 1..(k - 1) : f[m] < mx) - 1

----------------------------------------------------------------------------
(* find_best_answer_window(start_score, end_score, context_start_idx,
   context_end_idx) *)

ValueError == [kind |-> "ValueError"]
Return(score, s, e) == [kind |-> "return", max_score |-> score, max_s |-> s, max_e |-> e]

find_best_answer_window(ss, es, cs, ce) ==
    LET context_len == ce - cs
        col == Slice(ss, cs, ce)
        row == Slice(es, cs, ce)
    IN  IF ~ReshapeOk(col, context_len) \/ ~ReshapeOk(row, context_len)
        THEN ValueError
        ELSE LET n == Len(col)
                 score_mat == Tril(Triu(Matmul(col, row)), MaxAnswerSpan)
                 flat == Flatten(score_mat, n)
             IN  IF n = 0
                 THEN ValueError   \* argmax of an empty sequence
                 ELSE LET am == Argmax(flat)
                          max_s == am \div n
                          max_e == am % n
                      IN  Return(score_mat[<<max_s, max_e>>], max_s, max_e)

----------------------------------------------------------------------------
(* Text.  A string is a sequence of characters. *)

IsSpace(c) == c \in {" ", "\n"}

LowerChar(c) == IF c = "A" THEN "a" ELSE IF c = "B" THEN "b" ELSE c

\* text.lower()
lower(text) == [k \in DOMAIN text |-> LowerChar(text[k])]

\* sep.join(parts)
RECURSIVE Join(_, _)
Join(sep, parts) ==
    IF Len(parts) = 0 THEN << >>
    ELSE IF Len(parts) = 1 THEN parts[1]
    ELSE parts[1] \o sep \o Join(sep, Tail(parts))

----------------------------------------------------------------------------
(* The vocabulary and the tokenizer (tokens_bert) *)

VocabTable ==
    (<<"[UNK]">> :> 100) @@ (<<"[CLS]">> :> 101) @@ (<<"[SEP]">> :> 102)
        @@ (<<"a">> :> 1037) @@ (<<"b">> :> 1038)

cls_token == VocabTable[<<"[CLS]">>]
sep_token == VocabTable[<<"[SEP]">>]

\* the 0-based offsets at which a word of text starts
WordStarts(text) ==
    {s \in 0..(Len(text) - 1) :
        ~IsSpace(At(text, s)) /\ (s = 0 \/ IsSpace(At(text, s - 1)))}

\* the offset just after the word that starts at s
WordEnd(text, s) ==
    CHOOSE e \in (s + 1)..Len(text) :
        /\ \A m \in s..(e - 1) : ~IsSpace(At(text, m))
        /\ (e = Len(text) \/ IsSpace(At(text, e)))

\* tokens.text_to_tokens(text, vocab): one token per word, with the word's
\* (start, end) character offsets
text_to_tokens(text, voc) ==
    LET starts == SortedSeq(WordStarts(text))
        spans == [k \in 1..Len(starts) |-> <<starts[k], WordEnd(text, starts[k])>>]
        word(k) == Slice(text, spans[k][1], spans[k][2])
    IN  [tokens |-> [k \in 1..Len(starts) |->
                        IF word(k) \in DOMAIN voc THEN voc[word(k)] ELSE voc[<<"[UNK]">>]],
         spans |-> spans]

----------------------------------------------------------------------------
(* load_context(sources) *)

\* parse.urlparse(source) finds a scheme and a network location
IsUrl(source) ==
    /\ Len(source) > 4
    /\ SubSeq(source, 1, 4) = <<"h", ":", "/", "/">>

\* what reader.get_paragraphs(input_urls) may return: nothing for no URL; for
\* some URL, the paragraphs of the pages, of which there may be none
FetchResults(input_urls) ==
    IF Len(input_urls) = 0 THEN {<< >>} ELSE {<< >>, <<<<"b">>>>}

\* fetched is what reader.get_paragraphs(input_urls) returned
load_context(srcs, fetched) ==
    LET paragraphs == SelectSeq(srcs, LAMBDA x : ~IsUrl(x)) \o fetched
    IN  Join(<<"\n">>, paragraphs)

----------------------------------------------------------------------------
(* prepare_input(question_tokens, context_tokens, input_keys) *)

\* prepare_input without the [SEP] between the question and the context
prepare_inputNoSep(question_tokens, context_tokens) ==
    LET input_ids == <<cls_token>> \o question_tokens \o context_tokens \o <<sep_token>>
    IN  [input_ids |-> input_ids,
         attention_mask |-> [k \in 1..Len(input_ids) |-> 1],
         token_type_ids |-> [k \in 1..(Len(question_tokens) + 1) |-> 0]
                                \o [k \in 1..(Len(context_tokens) + 1) |-> 1]]

prepare_input(question_tokens, context_tokens) ==
    LET input_ids == <<cls_token>> \o question_tokens \o <<sep_token>>
                        \o context_tokens \o <<sep_token>>
    IN  [input_ids |-> input_ids,
         attention_mask |-> [k \in 1..Len(input_ids) |-> 1],
         token_type_ids |-> [k \in 1..(Len(question_tokens) + 2) |-> 0]
                                \o [k \in 1..(Len(context_tokens) + 1) |-> 1]]

----------------------------------------------------------------------------
(* The inference call: request.infer(inputs=network_input) and the two output
   tensors.  A network gives every token a logit: MaxLogit at the token it
   favours as the start (the end) of the answer, 0 elsewhere.  The favoured
   token is counted from the [SEP] that precedes the context, which the
   network finds in token_type_ids. *)

Networks == [s : 0..MaxPeak, e : 0..MaxPeak]

PeakLogits(n, at) == [k \in 1..n |-> IF k - 1 = Min(at, n - 1) THEN MaxLogit ELSE 0]

\* the number of tokens of segment 0: [CLS], the question and the first [SEP]
SegmentZero(network_input) ==
    Cardinality({k \in DOMAIN network_input.token_type_ids :
                    network_input.token_type_ids[k] = 0})

Infer(net, network_input) ==
    LET sep == SegmentZero(network_input) - 1
    IN  [output_s |-> PeakLogits(Len(network_input.input_ids), sep + net.s),
         output_e |-> PeakLogits(Len(network_input.input_ids), sep + net.e)]

----------------------------------------------------------------------------
(* postprocess(output_start, output_end, question_tokens,
   context_tokens_start_end, input_size) *)

\* get_score(logits): np.exp(logits) / np.exp(logits).sum(), in fixed point
get_score(logits) ==
    LET out == [k \in DOMAIN logits |-> Exp(logits[k])]
        total == Sum(out)
    IN  [k \in DOMAIN logits |-> (out[k] * ScoreScale) \div total]

\* the raw outputs handed to find_best_answer_window, get_score left out
WindowArgsRaw(output_start, output_end, question_tokens, input_size) ==
    [start_score |-> output_start,
     end_score |-> output_end,
     context_start_idx |-> Len(question_tokens) + 2,
     context_end_idx |-> input_size - 1]

\* the arguments postprocess hands to find_best_answer_window
WindowArgs(output_start, output_end, question_tokens, input_size) ==
    [start_score |-> get_score(output_start),
     end_score |-> get_score(output_end),
     context_start_idx |-> Len(question_tokens) + 2,
     context_end_idx |-> input_size - 1]

\* both offsets taken from the start token of the window
WindowToRangeOfStart(window, context_tokens_start_end) ==
    [max_score |-> window.max_score,
     max_start |-> At(context_tokens_start_end, window.max_s)[1],
     max_end |-> At(context_tokens_start_end, window.max_s)[2]]

\* the two fields of a span taken for each other: the end offset of the start
\* token and the start offset of the end token
WindowToRangeSwapped(window, context_tokens_start_end) ==
    [max_score |-> window.max_score,
     max_start |-> At(context_tokens_start_end, window.max_s)[2],
     max_end |-> At(context_tokens_start_end, window.max_e)[1]]

\* the rest of postprocess, given the window that was returned
WindowToRange(window, context_tokens_start_end) ==
    [max_score |-> window.max_score,
     max_start |-> At(context_tokens_start_end, window.max_s)[1],
     max_end |-> At(context_tokens_start_end, window.max_e)[2]]

----------------------------------------------------------------------------
(* get_best_answer and run_question_answering *)

\* get_best_answer(question, context, vocab, input_keys) as a function of its
\* arguments and of the compiled model, when the inference call returns
get_best_answer(q, ctx, voc, net) ==
    LET c == text_to_tokens(lower(ctx), voc)
        qt == text_to_tokens(lower(q), voc)
        network_input == prepare_input(qt.tokens, c.tokens)
        input_size == Len(c.tokens) + Len(qt.tokens) + 3
        out == Infer(net, network_input)
        args == WindowArgs(out.output_s, out.output_e, qt.tokens, input_size)
        window == find_best_answer_window(args.start_score, args.end_score,
                                          args.context_start_idx, args.context_end_idx)
    IN  IF window.kind # "return" THEN window
        ELSE LET range == WindowToRange(window, c.spans)
             IN  [kind |-> "return",
                  answer |-> Slice(ctx, range.max_start, range.max_end),
                  score |-> range.max_score]

NoFrame ==
    [question_tokens |-> << >>, context_tokens |-> << >>,
     context_tokens_start_end |-> << >>, input_ids |-> << >>, input_size |-> 0,
     output_start |-> << >>, output_end |-> << >>,
     max_start |-> 0, max_end |-> 0, answer |-> << >>, score |-> 0]

Line(tag, text, num) == [tag |-> tag, text |-> text, num |-> num]

\* f"{score:.2f}": the score in hundredths, rounded
Format2f(score) ==
    (score * 100 + (ScoreScale * ScoreScale) \div 2) \div (ScoreScale * ScoreScale)

\* a check of the context that never finds it empty
IsEmptyContextNever(ctx) == FALSE

\* len(context) == 0
IsEmptyContext(ctx) == Len(ctx) = 0

\* a test of the question that never finds it empty
IsEmptyQuestionNever(q) == FALSE

\* question == ""
IsEmptyQuestion(q) == q = << >>

Paragraphs == {<< >>, <<" ">>, <<"a">>, <<"A", " ", "b">>}
UrlSource == <<"h", ":", "/", "/", "w">>
SourceTexts == Paragraphs \cup {UrlSource}
SourceLists == UNION {[1..n -> SourceTexts] : n \in 0..MaxSources}

Questions == {<< >>, <<"B">>, <<"a", " ", "B">>}

NoWindow ==
    /\ start_score = << >>
    /\ end_score = << >>
    /\ context_start_idx = 0
    /\ context_end_idx = 0
    /\ result = [kind |-> "none"]

\* the classification notebook is not running
NoClassification ==
    /\ cell = "none"
    /\ model_output = << >>
    /\ np_argsort = << >>
    /\ ie_result = << >>
    /\ result_index = 0
    /\ class_name = << >>
    /\ softmax_result = << >>
    /\ top_indices = << >>
    /\ top_softmax = << >>
    /\ images = 0

Init ==
    /\ NoWindow
    /\ NoClassification
    /\ pc = "start"
    /\ sources \in SourceLists
    /\ network \in Networks
    /\ vocab = VocabTable
    /\ context = << >>
    /\ asked = << >>
    /\ question = << >>
    /\ frame = NoFrame
    /\ stdout = << >>
    /\ infer_calls = 0
    /\ window_calls = 0

\* print(f"Context: {sources}"); context = load_context(sources); the check of
\* len(context), with its print and return
LoadContext ==
    /\ pc = "start"
    /\ \E fetched \in FetchResults(SelectSeq(sources, IsUrl)) :
          LET ctx == load_context(sources, fetched)
          IN  /\ context' = ctx
              /\ \/ /\ IsEmptyContext(ctx)
                    /\ stdout' = stdout \o <<Line("Context", Concat(sources), 0),
                                             Line("Error", << >>, 0)>>
                    /\ pc' = "done"
                 \/ /\ ~IsEmptyContext(ctx)
                    /\ stdout' = Append(stdout, Line("Context", Concat(sources), 0))
                    /\ pc' = "input"
    /\ UNCHANGED class_vars
    /\ UNCHANGED <<window_vars, sources, network, vocab, asked, question, frame,
                   infer_calls, window_calls>>

\* a loop that keeps every question it reads in the context
ReadQuestionIntoContext ==
    /\ pc = "input"
    /\ \E q \in Questions :
          /\ IsEmptyQuestion(q) \/ Len(asked) < MaxQuestions
          /\ asked' = Append(asked, q)
          /\ question' = q
          /\ context' = context \o q
          /\ pc' = IF IsEmptyQuestion(q) THEN "done" ELSE "infer"
    /\ UNCHANGED class_vars
    /\ UNCHANGED <<window_vars, sources, network, vocab, frame, stdout,
                   infer_calls, window_calls>>

\* question = input(); break on the empty string
ReadQuestion ==
    /\ pc = "input"
    /\ \E q \in Questions :
          /\ IsEmptyQuestion(q) \/ Len(asked) < MaxQuestions
          /\ asked' = Append(asked, q)
          /\ question' = q
          /\ pc' = IF IsEmptyQuestion(q) THEN "done" ELSE "infer"
    /\ UNCHANGED class_vars
    /\ UNCHANGED <<window_vars, sources, network, vocab, context, frame, stdout,
                   infer_calls, window_calls>>

\* get_best_answer up to the inference call, which returns
InferOk ==
    /\ pc = "infer"
    /\ LET ctx == text_to_tokens(lower(context), vocab)
           qst == text_to_tokens(lower(question), vocab)
           network_input == prepare_input(qst.tokens, ctx.tokens)
           out == Infer(network, network_input)
       IN  frame' = [NoFrame EXCEPT
                        !.question_tokens = qst.tokens,
                        !.context_tokens = ctx.tokens,
                        !.context_tokens_start_end = ctx.spans,
                        !.input_ids = network_input.input_ids,
                        !.input_size = Len(ctx.tokens) + Len(qst.tokens) + 3,
                        !.output_start = out.output_s,
                        !.output_end = out.output_e]
    /\ infer_calls' = infer_calls + 1
    /\ pc' = "postprocess"
    /\ UNCHANGED class_vars
    /\ UNCHANGED <<window_vars, sources, network, vocab, context, asked, question,
                   stdout, window_calls>>

\* a failed inference call that is attempted again
InferRaisesRetried ==
    /\ pc = "infer"
    /\ infer_calls' = infer_calls + 1
    /\ pc' = "infer"
    /\ UNCHANGED class_vars
    /\ UNCHANGED <<window_vars, sources, network, vocab, context, asked, question,
                   frame, stdout, window_calls>>

\* get_best_answer up to the inference call, which raises
InferRaises ==
    /\ pc = "infer"
    /\ infer_calls' = infer_calls + 1
    /\ pc' = "raised"
    /\ UNCHANGED class_vars
    /\ UNCHANGED <<window_vars, sources, network, vocab, context, asked, question,
                   frame, stdout, window_calls>>

\* postprocess, and the slice of the context get_best_answer returns; an error
\* raised by find_best_answer_window leaves run_question_answering
Postprocess ==
    /\ pc = "postprocess"
    /\ LET args == WindowArgs(frame.output_start, frame.output_end,
                              frame.question_tokens, frame.input_size)
           window == find_best_answer_window(args.start_score, args.end_score,
                                             args.context_start_idx, args.context_end_idx)
       IN  /\ start_score' = args.start_score
           /\ end_score' = args.end_score
           /\ context_start_idx' = args.context_start_idx
           /\ context_end_idx' = args.context_end_idx
           /\ result' = window
           /\ \/ /\ window.kind = "return"
                 /\ LET range == WindowToRange(window, frame.context_tokens_start_end)
                    IN  frame' = [frame EXCEPT
                                     !.max_start = range.max_start,
                                     !.max_end = range.max_end,
                                     !.answer = Slice(context, range.max_start, range.max_end),
                                     !.score = range.max_score]
                 /\ pc' = "print"
              \/ /\ window.kind # "return"
                 /\ frame' = frame
                 /\ pc' = "raised"
    /\ window_calls' = window_calls + 1
    /\ UNCHANGED class_vars
    /\ UNCHANGED <<sources, network, vocab, context, asked, question, stdout, infer_calls>>

\* an iteration that ends without its prints
PrintAnswerSilent ==
    /\ pc = "print"
    /\ frame' = NoFrame
    /\ pc' = "input"
    /\ UNCHANGED class_vars
    /\ UNCHANGED <<window_vars, sources, network, vocab, context, asked, question,
                   stdout, infer_calls, window_calls>>

\* the four prints that end an iteration of the loop
PrintAnswer ==
    /\ pc = "print"
    /\ stdout' = stdout \o <<Line("Question", question, 0),
                             Line("Answer", frame.answer, 0),
                             Line("Score", << >>, Format2f(frame.score)),
                             Line("Time", << >>, 0)>>
    /\ frame' = NoFrame
    /\ pc' = "input"
    /\ UNCHANGED class_vars
    /\ UNCHANGED <<window_vars, sources, network, vocab, context, asked, question,
                   infer_calls, window_calls>>

Next == LoadContext \/ ReadQuestion \/ InferOk \/ InferRaises \/ Postprocess \/ PrintAnswer

Spec == Init /\ [][Next]_vars

----------------------------------------------------------------------------
(* find_best_answer_window on its own: the call on drawn arguments *)

\* run_question_answering is not running
Idle ==
    /\ pc = "idle"
    /\ sources = << >>
    /\ network = [s |-> 0, e |-> 0]
    /\ vocab = VocabTable
    /\ context = << >>
    /\ asked = << >>
    /\ question = << >>
    /\ frame = NoFrame
    /\ stdout = << >>
    /\ infer_calls = 0
    /\ window_calls = 0

----------------------------------------------------------------------------
(* Inputs: score vectors with one background value and one entry set apart *)

Peaked(n, base, pos, val) == [k \in 1..n |-> IF k = pos THEN val ELSE base]

ScoreValues == {0, MaxScore}

ScoreVectors(n) ==
    {Peaked(n, base, pos, val) : base \in {0, 1}, pos \in 1..n, val \in ScoreValues}
        \cup {[k \in 1..n |-> 1]}

InitWindow ==
    /\ Idle
    /\ NoClassification
    /\ start_score \in ScoreVectors(MaxLen)
    /\ end_score \in ScoreVectors(MaxLen)
    /\ context_start_idx \in {0, MaxStart}
    /\ context_end_idx \in context_start_idx..MaxLen
    /\ result = [kind |-> "none"]

\* the call of find_best_answer_window on the drawn arguments
CallWindow ==
    /\ pc = "idle"
    /\ result.kind = "none"
    /\ result' = find_best_answer_window(start_score, end_score,
                                         context_start_idx, context_end_idx)
    /\ window_calls' = window_calls + 1
    /\ UNCHANGED class_vars
    /\ UNCHANGED <<start_score, end_score, context_start_idx, context_end_idx,
                   pc, sources, network, vocab, context, asked, question, frame,
                   stdout, infer_calls>>

NextWindow == CallWindow

SpecWindow == InitWindow /\ [][NextWindow]_vars

\* arguments of any shape: short vectors of equal or different lengths, bounds
\* in any order and up to one past the longest vector
InitArgs ==
    /\ Idle
    /\ NoClassification
    /\ \E ns, ne \in 1..MaxArgLen :
          /\ start_score \in ScoreVectors(ns)
          /\ end_score \in ScoreVectors(ne)
    /\ context_start_idx \in 0..(MaxArgLen + 1)
    /\ context_end_idx \in 0..(MaxArgLen + 1)
    /\ result = [kind |-> "none"]

SpecArgs == InitArgs /\ [][NextWindow]_vars

\* the vectors of the worked example, in tenths: 0.1 everywhere but 0.7 at one
\* token, for every place of that token
ScenarioVectors == {Peaked(4, 1, pos, 7) : pos \in 1..4}

\* the worked example and its neighbours: every place of the two peaks and
\* every region of the four tokens
InitScenario ==
    /\ Idle
    /\ NoClassification
    /\ start_score \in ScenarioVectors
    /\ end_score \in ScenarioVectors
    /\ context_start_idx \in 0..4
    /\ context_end_idx \in context_start_idx..4
    /\ result = [kind |-> "none"]

SpecScenario == InitScenario /\ [][NextWindow]_vars

----------------------------------------------------------------------------
(* Vocabulary of the properties of find_best_answer_window *)

Called == result.kind # "none"
Returned == result.kind = "return"
Raised == result.kind = "ValueError"

EqualLength == Len(start_score) = Len(end_score)
NonEmptyContext == context_start_idx < context_end_idx
InBounds == 0 <= context_start_idx /\ context_end_idx <= Len(start_score)
ValidArgs == EqualLength /\ InBounds /\ NonEmptyContext

ContextLen == context_end_idx - context_start_idx

\* start_score[context_start_idx + i] * end_score[context_start_idx + j]
Product(i, j) ==
    At(start_score, context_start_idx + i) * At(end_score, context_start_idx + j)

\* the context-local pairs with start before or at end
OrderedPairs == {p \in (0..(ContextLen - 1)) \X (0..(ContextLen - 1)) : p[1] <= p[2]}

\* the admissible windows: ordered, and end at most MaxAnswerSpan after start
AdmissiblePairs == {p \in OrderedPairs : p[2] - p[1] <= MaxAnswerSpan}

\* row-major order of the context-local matrix
RowMajorLeq(p, q) == p[1] < q[1] \/ (p[1] = q[1] /\ p[2] <= q[2])

Uniform(v) == \A k \in DOMAIN v : v[k] = v[1]

----------------------------------------------------------------------------
(* C1 *)

\* C1, as stated: for equal-length scores of length N and every
\* 0 <= context_start_idx <= context_end_idx <= N (an empty region included),
\* the call returns (score, i, j) with
\* context_start_idx <= context_start_idx + i <= context_start_idx + j
\* < context_end_idx and j - i <= 16.
C1_AsStated ==
    (Called /\ EqualLength /\ InBounds /\ context_start_idx <= context_end_idx)
        => /\ Returned
           /\ context_start_idx <= context_start_idx + result.max_s
           /\ result.max_s <= result.max_e
           /\ context_start_idx + result.max_e < context_end_idx
           /\ result.max_e - result.max_s <= MaxAnswerSpan

\* C1, amended: the same for every 0 <= context_start_idx < context_end_idx <= N
\* (a non-empty region); for context_start_idx = context_end_idx the call raises.
C1_WindowInContext ==
    /\ (Called /\ ValidArgs)
        => /\ Returned
           /\ context_start_idx <= context_start_idx + result.max_s
           /\ result.max_s <= result.max_e
           /\ context_start_idx + result.max_e < context_end_idx
           /\ result.max_e - result.max_s <= MaxAnswerSpan
    /\ (Called /\ EqualLength /\ InBounds /\ context_start_idx = context_end_idx)
        => Raised

\* a returned window of a region that does not start the vectors, exactly
\* MaxAnswerSpan wide
C1_Witness ==
    /\ Returned /\ ValidArgs
    /\ context_start_idx > 0
    /\ result.max_e - result.max_s = MaxAnswerSpan

----------------------------------------------------------------------------
(* C2 *)

----------------------------------------------------------------------------
(* C3 *)

\* C3: the returned score equals
\* start_score[context_start_idx + i*] * end_score[context_start_idx + j*] for the
\* returned (i*, j*), also when every admissible product is zero.
C3_ScoreIsProduct ==
    (Called /\ ValidArgs)
        => /\ Returned
           /\ result.max_score = Product(result.max_s, result.max_e)

\* every admissible product is zero although a pair with end before start has a
\* positive product, and the region does not start the vectors
C3_Witness ==
    /\ Returned /\ ValidArgs
    /\ context_start_idx > 0
    /\ result.max_score = 0
    /\ \E i, j \in 0..(ContextLen - 1) : j < i /\ Product(i, j) > 0

----------------------------------------------------------------------------
(* C4 *)

\* C4: the returned window never spans more than 16 tokens:
\* j* - i* + 1 <= 16.
C4_AtMostSixteenTokens ==
    (Called /\ ValidArgs)
        => /\ Returned
           /\ result.max_e - result.max_s + 1 <= MaxAnswerSpan

----------------------------------------------------------------------------
(* C5 *)

\* the largest product over all ordered pairs is reached only over the cap
BestIsOverCap ==
    \E p \in OrderedPairs \ AdmissiblePairs :
        /\ \A q \in OrderedPairs : Product(q[1], q[2]) <= Product(p[1], p[2])
        /\ \A q \in AdmissiblePairs : Product(q[1], q[2]) < Product(p[1], p[2])

----------------------------------------------------------------------------
(* C6 *)

\* C6: among the admissible windows that share the maximal product the returned
\* one is first in row-major order: the smallest i, then the smallest j.
C6_FirstInRowMajorOrder ==
    (Called /\ ValidArgs)
        => /\ Returned
           /\ <<result.max_s, result.max_e>> \in AdmissiblePairs
           /\ \A p \in AdmissiblePairs :
                  Product(p[1], p[2]) >= Product(result.max_s, result.max_e)
                      => RowMajorLeq(<<result.max_s, result.max_e>>, p)

\* a positive maximum shared by windows of two different rows and by two windows
\* of the returned row, the returned one not being the first entry of the matrix
C6_Witness ==
    /\ Returned /\ ValidArgs
    /\ result.max_score > 0
    /\ result.max_s > 0
    /\ \E p \in AdmissiblePairs :
          p[1] > result.max_s /\ Product(p[1], p[2]) = result.max_score
    /\ \E p \in AdmissiblePairs :
          p[1] = result.max_s /\ p[2] > result.max_e /\ Product(p[1], p[2]) = result.max_score

----------------------------------------------------------------------------
(* C7 *)

UniformScores ==
    /\ Uniform(start_score) /\ Uniform(end_score)
    /\ start_score[1] = end_score[1]
    /\ start_score[1] > 0

\* the smaller of 16 and context_len - 1
LastOfFirstRow == Min(MaxAnswerSpan, ContextLen - 1)

\* C7, as stated: for uniform positive score vectors and a non-empty region the
\* call returns i* = 0 and j* = min(16, context_len - 1).
C7_AsStated ==
    (Called /\ ValidArgs /\ UniformScores)
        => /\ Returned
           /\ result.max_s = 0
           /\ result.max_e = LastOfFirstRow

\* C7, amended: for uniform positive score vectors and a non-empty region the
\* call returns i* = 0 and j* = 0, the first entry of the matrix.
C7_UniformReturnsFirstEntry ==
    (Called /\ ValidArgs /\ UniformScores)
        => /\ Returned
           /\ result.max_s = 0
           /\ result.max_e = 0
           /\ result.max_score = start_score[1] * end_score[1]

\* uniform scores over a region longer than the cap, the call returned
C7_Witness ==
    /\ Returned /\ ValidArgs /\ UniformScores
    /\ ContextLen > MaxAnswerSpan + 1

----------------------------------------------------------------------------
(* C8 *)

\* C8: in every execution of run_question_answering find_best_answer_window is
\* never called with context_end_idx <= context_start_idx: an empty context is
\* rejected before the scorer is invoked.
C8_ScorerNeverSeesEmptyContext ==
    (pc # "idle" /\ window_calls > 0) => context_start_idx < context_end_idx

----------------------------------------------------------------------------
(* C9 *)

MalformedArgs == ~EqualLength \/ context_end_idx <= context_start_idx

\* C9: called with start_score and end_score of different lengths, or with
\* context_end_idx <= context_start_idx, find_best_answer_window raises an
\* invalid-argument error (ValueError) and never returns a (score, i*, j*).
C9_MalformedArgsRaise ==
    (Called /\ MalformedArgs) => Raised

----------------------------------------------------------------------------
(* C10 *)

\* C10: when the context string load_context produced is empty,
\* run_question_answering prints the empty-context error and returns: no call of
\* input(), no inference call, no call of find_best_answer_window.
C10_EmptyContextAborts ==
    (pc \notin {"idle", "start"} /\ Len(context) = 0)
        => /\ pc = "done"
           /\ stdout = <<Line("Context", Concat(sources), 0), Line("Error", << >>, 0)>>
           /\ asked = << >>
           /\ infer_calls = 0
           /\ window_calls = 0
           /\ result.kind = "none"

\* the run has ended on an empty context made of several sources, a URL among them
C10_Witness ==
    /\ pc = "done"
    /\ Len(context) = 0
    /\ Len(sources) > 1
    /\ \E k \in DOMAIN sources : IsUrl(sources[k])

----------------------------------------------------------------------------
(* Vocabulary of the properties of run_question_answering *)

Running == pc \notin {"idle", "start"} /\ Len(context) > 0

IsPrefix(a, b) == Len(a) <= Len(b) /\ SubSeq(b, 1, Len(a)) = a

\* the non-empty strings input() has returned, in order
NonEmptyAsked == SelectSeq(asked, LAMBDA q : q # << >>)

\* the questions of the "Question:" lines printed, in order
PrintedQuestions ==
    LET lines == SelectSeq(stdout, LAMBDA l : l.tag = "Question")
    IN  [k \in 1..Len(lines) |-> lines[k].text]

\* an iteration is under way: a question was read and is not printed yet
InIteration == pc \in {"infer", "postprocess", "print", "raised"}

----------------------------------------------------------------------------
(* C11 *)

\* C11: with a non-empty context the questions are handled one after the other:
\* the answer to a non-empty question is printed before the next question is
\* read, the answers are printed in the order the questions were entered, and
\* each question gets one answer (the lines Question, Answer, Score, Time).
C11_QuestionsAreSerial ==
    Running
        => /\ Len(stdout) = 1 + 4 * Len(PrintedQuestions)
           /\ \A k \in 1..Len(PrintedQuestions) :
                 /\ stdout[4 * k - 2].tag = "Question"
                 /\ stdout[4 * k - 2].text = NonEmptyAsked[k]
                 /\ stdout[4 * k - 1].tag = "Answer"
                 /\ stdout[4 * k].tag = "Score"
                 /\ stdout[4 * k + 1].tag = "Time"
           /\ IsPrefix(PrintedQuestions, NonEmptyAsked)
           /\ (pc \in {"input", "done"}) => PrintedQuestions = NonEmptyAsked
           /\ InIteration
                 => /\ Len(NonEmptyAsked) = Len(PrintedQuestions) + 1
                    /\ question = NonEmptyAsked[Len(NonEmptyAsked)]

\* two different questions were read and answered, and the loop waits for input
C11_Witness ==
    /\ Running /\ pc = "input"
    /\ Len(PrintedQuestions) = 2
    /\ PrintedQuestions[1] # PrintedQuestions[2]

----------------------------------------------------------------------------
(* C12 *)

\* C12: the loop stops at the first empty question: nothing is read after it,
\* no inference, scoring or print is made for it, and with it
\* run_question_answering has returned (no step is left to take).
C12_StopsAtFirstEmptyQuestion ==
    Running
        => /\ \A k \in DOMAIN asked : asked[k] = << >> => k = Len(asked)
           /\ (asked # << >> /\ asked[Len(asked)] = << >>)
                 => /\ pc = "done"
                    /\ infer_calls = Len(asked) - 1
                    /\ window_calls = Len(asked) - 1
                    /\ Len(PrintedQuestions) = Len(asked) - 1
                    /\ stdout[Len(stdout)].tag \in {"Context", "Time"}
                    /\ ~ENABLED Next

\* the empty question came after two answered questions and ended the run
C12_Witness ==
    /\ Running /\ pc = "done"
    /\ Len(asked) = 3
    /\ asked[3] = << >>
    /\ Len(PrintedQuestions) = 2

----------------------------------------------------------------------------
(* C13 *)

\* C13: no retries: for each non-empty question read the inference call and
\* find_best_answer_window are each made exactly once, and a failed inference
\* call leaves run_question_answering at once: it is not made again, nothing is
\* printed for the question and no further step is taken.
C13_NoRetries ==
    LET n == Len(NonEmptyAsked)
    IN  Running
            => /\ (pc \in {"input", "done", "print"})
                     => infer_calls = n /\ window_calls = n
               /\ pc = "infer" => infer_calls = n - 1 /\ window_calls = n - 1
               /\ pc = "postprocess" => infer_calls = n /\ window_calls = n - 1
               /\ pc = "raised"
                     => /\ infer_calls = n
                        /\ window_calls \in {n - 1, n}
                        /\ window_calls = n => result.kind = "ValueError"
                        /\ Len(PrintedQuestions) = n - 1
                        /\ ~ENABLED Next

\* the inference call failed on the second question, after one answered question
C13_Witness ==
    /\ Running /\ pc = "raised"
    /\ Len(NonEmptyAsked) = 2
    /\ infer_calls = 2
    /\ window_calls = 1

----------------------------------------------------------------------------
(* C14 *)

\* what the lines printed for the k-th question show, set against what
\* get_best_answer gives for that question alone
PrintedAsAlone(k, out, ctx, net) ==
    LET alone == get_best_answer(out[4 * k - 2].text, ctx, VocabTable, net)
    IN  /\ alone.kind = "return"
        /\ out[4 * k - 1].text = alone.answer
        /\ out[4 * k].num = Format2f(alone.score)

C14_Step ==
    Running
        => /\ context' = context
           /\ vocab' = vocab
           /\ network' = network
           /\ IsPrefix(stdout, stdout')
           /\ stdout' # stdout
                 => PrintedAsAlone((Len(stdout') - 1) \div 4, stdout', context, network)

\* C14: nothing persists across questions: no iteration changes the vocabulary
\* table, the context string or the compiled model, and the answer and score
\* printed for a question are those get_best_answer gives for that question
\* alone, whatever was asked before it (lines once printed stay as they are).
C14_NothingPersists == [][C14_Step]_vars

\* the same question was answered twice, after a different first answer or not,
\* and got the same non-empty answer both times
C14_Witness ==
    /\ Running /\ pc = "input"
    /\ Len(PrintedQuestions) = 2
    /\ PrintedQuestions[1] = PrintedQuestions[2]
    /\ stdout[3].text = stdout[7].text
    /\ stdout[3].text # << >>

----------------------------------------------------------------------------
(* C16 *)

\* postprocess has returned to get_best_answer, which has sliced the context
Answered == pc = "print"

\* C16, as stated: postprocess adds context_start_idx to the indices i*, j* the
\* scorer returned and looks the sums up in the span index map: the start
\* offset of entry context_start_idx + i* and the end offset of entry
\* context_start_idx + j* are the range that slices the context.
C16_AsStated ==
    Answered
        => LET spans == frame.context_tokens_start_end
               s == context_start_idx + result.max_s
               e == context_start_idx + result.max_e
           IN  /\ s < Len(spans)
               /\ e < Len(spans)
               /\ frame.max_start = At(spans, s)[1]
               /\ frame.max_end = At(spans, e)[2]
               /\ frame.answer = Slice(context, frame.max_start, frame.max_end)

\* C16, amended: postprocess looks the context-local indices i*, j* up in the
\* span index map as they are, without adding context_start_idx (the map has one
\* entry per context token): the start offset of entry i* and the end offset of
\* entry j* are the range that slices the context.
C16_LocalIndicesIntoSpanMap ==
    Answered
        => LET spans == frame.context_tokens_start_end
           IN  /\ Returned
               /\ Len(spans) = Len(frame.context_tokens)
               /\ result.max_e < Len(spans)
               /\ frame.max_start = At(spans, result.max_s)[1]
               /\ frame.max_end = At(spans, result.max_e)[2]
               /\ frame.answer = Slice(context, frame.max_start, frame.max_end)
               /\ frame.score = result.max_score

\* an answer of several tokens that does not start at the first context token
C16_Witness ==
    /\ Answered
    /\ result.max_s > 0
    /\ result.max_e > result.max_s
    /\ Len(frame.answer) > 1

----------------------------------------------------------------------------
(* C17 *)

\* C17: a context region of length 1 (context_end_idx = context_start_idx + 1)
\* makes find_best_answer_window return i* = j* = 0, for every
\* context_start_idx and every pair of non-negative score vectors.
C17_SingleTokenContext ==
    (Called /\ ValidArgs /\ context_end_idx = context_start_idx + 1)
        => /\ Returned
           /\ result.max_s = 0
           /\ result.max_e = 0
           /\ result.max_score = Product(0, 0)

\* a one-token region inside the vectors, its product positive and smaller than
\* a product outside the region
C17_Witness ==
    /\ Returned /\ ValidArgs
    /\ context_end_idx = context_start_idx + 1
    /\ context_start_idx > 0
    /\ context_end_idx < Len(start_score)
    /\ result.max_score > 0
    /\ \E k \in DOMAIN end_score : start_score[context_start_idx + 1] * end_score[k] > result.max_score

----------------------------------------------------------------------------
(* C18 *)

\* start_score = [0.1, 0.1, 0.7, 0.1], end_score = [0.1, 0.1, 0.1, 0.7] in
\* tenths, context_start_idx = 0, context_end_idx = 4
WorkedExample ==
    /\ start_score = <<1, 1, 7, 1>>
    /\ end_score = <<1, 1, 1, 7>>
    /\ context_start_idx = 0
    /\ context_end_idx = 4

\* C18: for start_score = [0.1, 0.1, 0.7, 0.1], end_score = [0.1, 0.1, 0.1, 0.7],
\* context_start_idx = 0 and context_end_idx = 4 the call returns i* = 2,
\* j* = 3 and the score 0.49 (49 hundredths, the product 0.7 * 0.7).
C18_WorkedExample ==
    (Called /\ WorkedExample)
        => /\ Returned
           /\ result.max_s = 2
           /\ result.max_e = 3
           /\ result.max_score = 49

\* the call on the worked example has returned
C18_Witness == WorkedExample /\ Returned

----------------------------------------------------------------------------
(* C19 *)

\* find_best_answer_window has been called for the question in hand
WindowCalled == pc = "print" \/ (pc = "raised" /\ window_calls = infer_calls)

\* C19: the region [len(question_tokens) + 2, input_size - 1) that postprocess
\* hands to the scorer covers, in the input_ids built by prepare_input, exactly
\* the context tokens in order; [CLS], the question tokens and both [SEP] lie
\* outside it; and input_ids is input_size long, input_size being
\* len(context_tokens) + len(question_tokens) + 3.
C19_RegionIsTheContext ==
    WindowCalled
        => LET ids == frame.input_ids
               q == frame.question_tokens
               c == frame.context_tokens
           IN  /\ frame.input_size = Len(c) + Len(q) + 3
               /\ Len(ids) = frame.input_size
               /\ context_start_idx = Len(q) + 2
               /\ context_end_idx = frame.input_size - 1
               /\ Slice(ids, context_start_idx, context_end_idx) = c
               /\ At(ids, 0) = cls_token
               /\ Slice(ids, 1, Len(q) + 1) = q
               /\ At(ids, Len(q) + 1) = sep_token
               /\ At(ids, context_end_idx) = sep_token
               /\ context_end_idx = Len(ids) - 1
               /\ Len(start_score) = Len(ids)
               /\ Len(end_score) = Len(ids)

\* a question of two tokens and a context of at least three, answered
C19_Witness ==
    /\ pc = "print"
    /\ Len(frame.question_tokens) = 2
    /\ Len(frame.context_tokens) >= 3
    /\ frame.context_tokens[1] # frame.context_tokens[2]

----------------------------------------------------------------------------
(* C20 *)

\* score is a softmax of logits over the whole token sequence: one
\* non-negative entry per token, in the order of the logits, adding up to 1.0
\* (ScoreScale, less the rounding of each entry), the entries of the context
\* region adding up to no more than all of them
IsSoftmaxOf(score, logits) ==
    /\ Len(score) = Len(logits)
    /\ Len(score) = frame.input_size
    /\ \A k \in DOMAIN score : score[k] >= 0
    /\ \A k, m \in DOMAIN score :
          /\ logits[k] < logits[m] => score[k] < score[m]
          /\ logits[k] = logits[m] => score[k] = score[m]
    /\ Sum(score) <= ScoreScale
    /\ Sum(score) > ScoreScale - Len(score)
    /\ Sum(Slice(score, context_start_idx, context_end_idx)) <= Sum(score)

\* C20: postprocess applies the softmax to both raw output vectors over the
\* whole token sequence before it calls find_best_answer_window: the scorer
\* never receives raw logits, every score it receives is non-negative, and the
\* context-region entries of each vector sum to at most the full-sequence total.
C20_ScorerReceivesSoftmax ==
    WindowCalled
        => /\ IsSoftmaxOf(start_score, frame.output_start)
           /\ IsSoftmaxOf(end_score, frame.output_end)

\* the scorer was called with the start peak inside the context and the end
\* peak outside it
C20_Witness ==
    /\ pc = "print"
    /\ \E k \in (context_start_idx + 1)..context_end_idx : frame.output_start[k] = MaxLogit
    /\ \E k \in 1..context_start_idx : frame.output_end[k] = MaxLogit
    /\ Sum(Slice(end_score, context_start_idx, context_end_idx)) < Sum(end_score) \div 2

----------------------------------------------------------------------------
(* postprocess on its own: get_best_answer at its call of postprocess, with a
   drawn span index map in place of the one the tokenizer returned *)

\* the spans (start offset, end offset) a token can have
Spans == {<<s, e>> : s \in 0..MaxOffset, e \in 0..MaxOffset}

\* every span has start <= end, and neither offset decreases from one token to
\* the next (tokens cut from one word share its span)
MonotoneSpans(spans) ==
    \A k \in DOMAIN spans :
        /\ spans[k][1] <= spans[k][2]
        /\ k < Len(spans) => /\ spans[k][1] <= spans[k + 1][1]
                             /\ spans[k][2] <= spans[k + 1][2]

SpanMaps ==
    {m \in UNION {[1..n -> Spans] : n \in 0..MaxSpans} : MonotoneSpans(m)}

\* a context long enough for every offset of a drawn span index map
ContextOfSpans == [k \in 1..MaxOffset |-> IF k % 2 = 1 THEN "a" ELSE "b"]

\* get_best_answer after request.infer has returned: a non-empty question, one
\* context token per entry of the span index map, and two output tensors with
\* their peaks at the [SEP] before the context or at a context token
InitPostprocess ==
    /\ NoWindow
    /\ NoClassification
    /\ pc = "postprocess"
    /\ sources = << >>
    /\ network = [s |-> 0, e |-> 0]
    /\ vocab = VocabTable
    /\ context = ContextOfSpans
    /\ question \in Questions \ {<< >>}
    /\ asked = <<question>>
    /\ stdout = << >>
    /\ infer_calls = 1
    /\ window_calls = 0
    /\ \E spans \in SpanMaps,
          question_tokens \in {text_to_tokens(lower(question), vocab).tokens} :
          LET context_tokens == [k \in 1..Len(spans) |-> VocabTable[<<"a">>]]
              input_size == Len(context_tokens) + Len(question_tokens) + 3
              sep == Len(question_tokens) + 1
          IN  \E s, e \in 0..Len(spans) :
                 frame = [NoFrame EXCEPT
                             !.question_tokens = question_tokens,
                             !.context_tokens = context_tokens,
                             !.context_tokens_start_end = spans,
                             !.input_ids =
                                 prepare_input(question_tokens, context_tokens).input_ids,
                             !.input_size = input_size,
                             !.output_start = PeakLogits(input_size, sep + s),
                             !.output_end = PeakLogits(input_size, sep + e)]

NextPostprocess == Postprocess

SpecPostprocess == InitPostprocess /\ [][NextPostprocess]_vars

----------------------------------------------------------------------------
(* C21 *)

\* C21: when every entry of the span index map has start offset <= end offset
\* and the offsets do not decrease from one context token to the next, the
\* character range postprocess returns has start offset <= end offset, both
\* offsets lie between the start offset of the first token and the end offset
\* of the last token, and the answer get_best_answer slices is the run of
\* characters of the context from the start offset up to the end offset.
C21_RangeIsContiguous ==
    (Answered /\ MonotoneSpans(frame.context_tokens_start_end))
        => LET spans == frame.context_tokens_start_end
               first == spans[1][1]
               last == spans[Len(spans)][2]
           IN  /\ Len(spans) > 0
               /\ frame.max_start <= frame.max_end
               /\ first <= frame.max_start
               /\ frame.max_start <= last
               /\ first <= frame.max_end
               /\ frame.max_end <= last
               /\ Len(frame.answer) = frame.max_end - frame.max_start
               /\ \A k \in 1..Len(frame.answer) :
                     frame.answer[k] = context[frame.max_start + k]

\* an answer of at least one character and of several tokens that starts after
\* the first token's start offset
C21_Witness ==
    /\ Answered
    /\ MonotoneSpans(frame.context_tokens_start_end)
    /\ result.max_s < result.max_e
    /\ frame.context_tokens_start_end[1][1] < frame.max_start
    /\ frame.max_start < frame.max_end

----------------------------------------------------------------------------
(* The classification notebook: the cell that shows inference on the OpenVINO
   model and the timing loop, each with its top-three post-processing.  A
   probability is a fixed-point natural, as a score is. *)

\* scipy.special.softmax(x): exp(x - max) / sum(exp(x - max)), which is
\* exp(x) / sum(exp(x)); in fixed point, with 2^x standing for exp
softmax(x) ==
    LET out == [k \in DOMAIN x |-> Exp(x[k])]
        total == Sum(out)
    IN  [k \in DOMAIN x |-> (out[k] * ScoreScale) \div total]

\* the results np.argsort(v) can have: the 0-based indices of v in an order
\* that puts the values in non-decreasing order; equal values come in an order
\* that depends on the sorting algorithm of the numpy build
Argsorts(v) ==
    {p \in [1..Len(v) -> 0..(Len(v) - 1)] :
        /\ \A i, j \in 1..Len(v) : i # j => p[i] # p[j]
        /\ \A i \in 1..(Len(v) - 1) : At(v, p[i]) <= At(v, p[i + 1])}

\* v[-n:]: the last n elements, all of v when it has fewer
LastOf(v, n) ==
    LET lo == IF Len(v) > n THEN Len(v) - n ELSE 0
    IN  [k \in 1..(Len(v) - lo) |-> v[lo + k]]

\* v[::-1]
Reversed(v) == [k \in 1..Len(v) |-> v[Len(v) + 1 - k]]

\* the last three of the order, left in ascending order
TopThreeAscending(order) == LastOf(order, 3)

\* order[-3:][::-1]
TopThree(order) == Reversed(LastOf(order, 3))

\* v[indices] for an array of indices
Take(v, indices) == [k \in 1..Len(indices) |-> At(v, indices[k])]

\* classifier.label_list[index]: the class name of a class index
label_list(index) == <<"class", index>>

\* f"{softmax_probability:.5f}": the probability in units of 0.00001, rounded
Format5f(p) == (p * 100000 + ScoreScale \div 2) \div ScoreScale

\* the lines of: for index, softmax_probability in zip(top_indices, top_softmax)
PrintTop(indices, probabilities) ==
    [k \in 1..Min(Len(indices), Len(probabilities)) |->
        Line("Class", label_list(indices[k]), Format5f(probabilities[k]))]

\* the outputs of the compiled model: one logit per class
ResultVectors == UNION {[1..n -> 0..MaxClassLogit] : n \in 1..MaxClasses}

\* the iterations of the timing loop
num_images == MaxImages

InitClassification ==
    /\ NoWindow
    /\ Idle
    /\ cell = "inference"
    /\ model_output \in ResultVectors
    /\ \E softmax_of_output \in {softmax(model_output)} :
          np_argsort \in Argsorts(softmax_of_output)
    /\ ie_result = << >>
    /\ result_index = 0
    /\ class_name = << >>
    /\ softmax_result = << >>
    /\ top_indices = << >>
    /\ top_softmax = << >>
    /\ images = 0

\* the cell "Show Inference on OpenVINO Model": inference, softmax, the top
\* three and their prints
\* (np.argsort(softmax_result) is np_argsort: ie_result is model_output)
ShowInference ==
    /\ cell = "inference"
    /\ ie_result' = model_output
    /\ softmax_result' = softmax(ie_result')
    /\ top_indices' = TopThree(np_argsort)
    /\ top_softmax' = Take(softmax_result', top_indices')
    /\ stdout' = stdout \o PrintTop(top_indices', top_softmax')
    /\ cell' = "timing"
    /\ UNCHANGED <<model_output, np_argsort, result_index, class_name, images>>
    /\ UNCHANGED <<window_vars, pc, sources, network, vocab, context, asked, question,
                   frame, infer_calls, window_calls>>

\* one iteration of the timing loop of the OpenVINO model
TimingIteration ==
    /\ cell = "timing"
    /\ images < num_images
    /\ ie_result' = model_output
    /\ result_index' = Argmax(ie_result')
    /\ class_name' = label_list(Argmax(ie_result'))
    /\ softmax_result' = softmax(ie_result')
    /\ top_indices' = TopThree(np_argsort)
    /\ top_softmax' = Take(softmax_result', top_indices')
    /\ images' = images + 1
    /\ UNCHANGED <<cell, model_output, np_argsort>>
    /\ UNCHANGED <<window_vars, run_vars>>

\* the prints after the timing loop
TimingReport ==
    /\ cell = "timing"
    /\ images = num_images
    /\ stdout' = stdout \o <<Line("Time", << >>, 0)>> \o PrintTop(top_indices, top_softmax)
    /\ cell' = "done"
    /\ UNCHANGED <<model_output, np_argsort, ie_result, result_index, class_name,
                   softmax_result, top_indices, top_softmax, images>>
    /\ UNCHANGED <<window_vars, pc, sources, network, vocab, context, asked, question,
                   frame, infer_calls, window_calls>>

NextClassification == ShowInference \/ TimingIteration \/ TimingReport

SpecClassification == InitClassification /\ [][NextClassification]_vars

----------------------------------------------------------------------------
(* C22 *)

\* top_indices and top_softmax have been computed
TopComputed == cell \in {"timing", "done"}

\* the class indices that are not in top_indices
NotInTop == (0..(Len(softmax_result) - 1)) \ {top_indices[k] : k \in DOMAIN top_indices}

\* C22: for an inference result with at least three classes, top_indices holds
\* three different class indices, no class outside them has a higher softmax
\* probability than any of them, they are listed from the highest probability
\* to the lowest, and top_softmax holds their probabilities in that same
\* non-increasing order; after the inference cell and after every iteration of
\* the timing loop.
C22_TopThreeInDescendingOrder ==
    (TopComputed /\ Len(ie_result) >= 3)
        => /\ Len(softmax_result) = Len(ie_result)
           /\ Len(top_indices) = 3
           /\ Len(top_softmax) = 3
           /\ \A k \in 1..3 : top_indices[k] \in 0..(Len(softmax_result) - 1)
           /\ \A k, m \in 1..3 : k # m => top_indices[k] # top_indices[m]
           /\ \A k \in 1..3 : top_softmax[k] = At(softmax_result, top_indices[k])
           /\ top_softmax[1] >= top_softmax[2]
           /\ top_softmax[2] >= top_softmax[3]
           /\ \A j \in NotInTop : At(softmax_result, j) <= top_softmax[3]

\* the timing loop has run on a result of more than three classes whose three
\* highest probabilities are not all equal and do not come in index order
C22_Witness ==
    /\ cell = "timing"
    /\ images = num_images
    /\ Len(ie_result) > 3
    /\ top_softmax[1] > top_softmax[3]
    /\ top_indices[1] > top_indices[2]
    /\ \E j \in NotInTop : At(softmax_result, j) < top_softmax[3]

====
